---------------------------- MODULE Spec2Model ----------------------------
(*************************************************************************)
(* A model of src/type.js: the DOMContentLoaded handler and the event    *)
(* callbacks it registers.  Every callback runs to completion on the     *)
(* single event loop, so each one is one atomic action.                  *)
(*                                                                       *)
(* Modelled: the mobile nav (lines 34-65, 177-182), reveal on scroll     *)
(* (67-76), the dark mode toggle with persistence (87-112), the contact  *)
(* form (114-148) and the testimonials slider (150-175).  The back to    *)
(* top button, the year and the FAQ keys are left out: no variable here  *)
(* depends on them.  DOMContentLoaded is one                             *)
(* action that runs the setup of every feature; each specification       *)
(* starts from a page whose markup enables the feature it studies and    *)
(* fixes the environment of the others.                                  *)
(*************************************************************************)
EXTENDS Integers, Sequences, FiniteSets, TLC

VARIABLES
    loaded,      \* TRUE once the DOMContentLoaded callback has run
    \* ---- testimonials slider ----
    hasTrack,    \* qs('#tsTrack') is not null
    hasPrev,     \* qs('#prevTest') is not null
    hasNext,     \* qs('#nextTest') is not null
    nItems,      \* items.length
    idx,         \* let idx
    trackStyle,  \* what showIdx wrote to track.style: [written, offset]
    tsInterval,  \* let tsInterval: the one handle the script remembers
    active,      \* the host's set of interval timers that are still scheduled
    nextHandle,  \* the handle the host's next setInterval call returns
    over,        \* the slider elements the pointer is inside of
    entered,     \* a mouseenter callback has run since the pointer was last outside all of them
    cev,         \* the last slider callback: [op, arg, pidx]
    calls,       \* the last (at most two) direct calls of showIdx: [arg, idx, style] after each
    \* ---- theme ----
    storage,     \* localStorage[themeKey]: <<>> (no entry) or <<string>>
    bodyCls,     \* the theme classes in body.classList
    hasToggle,   \* qs('#darkToggle') is not null
    icon,        \* darkToggle.innerHTML: "markup", "sun" or "moon"
    mm,          \* window.matchMedia: "absent", or what the dark query .matches: "dark" / "light"
    tinit,       \* what the init-theme code did: [pre, readOk, applied, consulted]
    tlast,       \* the last theme operation: [op, wrote, mode, pre]
    hist,        \* the displays before the last (at most two) toggle clicks
    \* ---- mobile nav ----
    hasHamburger,   \* qs('#hamburger') is not null
    hasMobileNav,   \* qs('#mobileNav') is not null
    hasMobileClose, \* qs('#mobileClose') is not null
    menu,        \* [open: mobileNav has class open, hidden: its aria-hidden,
                 \*  expanded: hamburger's aria-expanded]; "none" is an absent attribute
    menuActed,   \* openMobile or closeMobile has run past its guard
    mev,         \* the last mobile-nav callback: [op, was], was the menu before it
    \* ---- reveal on scroll ----
    nReveal,     \* the [data-animate] elements are 1..nReveal
    visible,     \* the elements with class is-visible
    visible0,    \* those that had it in the markup
    observed,    \* the observer's targets
    hit,         \* the elements an entry has reported intersecting
    rehit,       \* those reported intersecting again by a later callback
    nRevealed,   \* per element, how often it went from not visible to visible
    \* ---- contact form ----
    hasForm,     \* qs('#contactForm') is not null
    hasResponse, \* qs('#formResponse') is not null
    fields,      \* the values of the form's name, email and message controls
    respText,    \* formResponse.textContent: "markup", "", an error, "sending" or "thanks"
    respColor,   \* formResponse.style.color: "markup", "error" or "accent"
    pending,     \* the number of setTimeout callbacks scheduled and not yet run
    everSent,    \* some submit had a non-empty name, a well-formed email and a long enough message
    sub,         \* the last submit: [seen, nameEmpty, emailOk, msgLen, typed]
    fev          \* the last form callback: "none", "submit" or "timeout"

carVars == <<hasTrack, hasPrev, hasNext, nItems, idx, trackStyle, tsInterval,
             active, nextHandle, over, entered, cev, calls>>
themeVars == <<storage, bodyCls, hasToggle, icon, mm, tinit, tlast, hist>>
menuVars == <<hasHamburger, hasMobileNav, hasMobileClose, menu, menuActed, mev>>
revealVars == <<nReveal, visible, visible0, observed, hit, rehit, nRevealed>>
formVars == <<hasForm, hasResponse, fields, respText, respColor, pending,
              everSent, sub, fev>>
vars == <<loaded, carVars, themeVars, menuVars, revealVars, formVars>>

-----------------------------------------------------------------------------
(* Bounds of the model *)

MaxItems == 3      \* the slider has 0..MaxItems testimonials
MaxHandles == 3    \* setInterval is called at most MaxHandles times
MaxArg == 7        \* a direct call showIdx(i) takes i in -MaxArg..MaxArg
MaxReveal == 3     \* the page has 0..MaxReveal [data-animate] elements
MaxEntries == 2    \* one observer callback gets 1..MaxEntries entries
MaxPending == 2    \* at most MaxPending form timeouts are scheduled at a time

-----------------------------------------------------------------------------
(* JavaScript helpers *)

\* a % b of JavaScript for b > 0: the remainder takes the sign of the dividend
JsMod(a, b) == IF a >= 0 THEN a % b ELSE -((-a) % b)

None == <<>>
Some(s) == <<s>>

\* if (stored): null and the empty string are falsy
Truthy(opt) == opt # None /\ opt[1] # ""

-----------------------------------------------------------------------------
(* Testimonials slider *)

Els == {"track", "prev", "next"}

Present == {e \in Els : \/ e = "track" /\ hasTrack
                        \/ e = "prev" /\ hasPrev
                        \/ e = "next" /\ hasNext}

Unwritten == [written |-> FALSE, offset |-> 0]

\* the mutant of NormIdx: no wrap at all
NormIdx_NoWrap(i, n) == i

\* idx = (i + items.length) % items.length
NormIdx(i, n) == JsMod(i + n, n)

\* the mutant of showIdx: the empty-list guard is missing
showIdx_NoGuard(i) ==
    /\ idx' = IF nItems = 0 THEN idx ELSE NormIdx(i, nItems)
    /\ trackStyle' = [written |-> TRUE, offset |-> -(idx') * 100]

\* function showIdx(i)
showIdx(i) ==
    IF nItems = 0
    THEN UNCHANGED <<idx, trackStyle>>
    ELSE /\ idx' = NormIdx(i, nItems)
         /\ trackStyle' = [written |-> TRUE, offset |-> -(idx') * 100]

\* the mutant of SetIntervalActive: the timer is never scheduled
SetIntervalActive_Dropped(act, h) == act

\* setInterval: the host schedules a new repeating timer under a fresh handle
SetIntervalActive(act, h) == act \cup {h}

\* clearInterval(h): the host cancels that timer; an unknown handle is ignored
ClearIntervalActive(act, h) == act \ {h}

\* the slider's part of the DOMContentLoaded callback
InitSlider ==
    IF hasTrack
    THEN /\ tsInterval' = nextHandle
         /\ active' = SetIntervalActive(active, nextHandle)
         /\ nextHandle' = nextHandle + 1
         /\ showIdx(0)
         /\ cev' = [op |-> "load", arg |-> 0, pidx |-> idx]
         /\ UNCHANGED <<hasTrack, hasPrev, hasNext, nItems, over, entered, calls>>
    ELSE UNCHANGED carVars

\* prevBtn click: showIdx(idx - 1)
PrevClick ==
    /\ loaded /\ hasTrack /\ hasPrev
    /\ showIdx(idx - 1)
    /\ cev' = [op |-> "prev", arg |-> idx - 1, pidx |-> idx]
    /\ UNCHANGED <<hasTrack, hasPrev, hasNext, nItems, tsInterval, active,
                   nextHandle, over, entered, calls>>
    /\ UNCHANGED <<loaded, themeVars, menuVars, revealVars, formVars>>

\* nextBtn click: showIdx(idx + 1)
NextClick ==
    /\ loaded /\ hasTrack /\ hasNext
    /\ showIdx(idx + 1)
    /\ cev' = [op |-> "next", arg |-> idx + 1, pidx |-> idx]
    /\ UNCHANGED <<hasTrack, hasPrev, hasNext, nItems, tsInterval, active,
                   nextHandle, over, entered, calls>>
    /\ UNCHANGED <<loaded, themeVars, menuVars, revealVars, formVars>>

\* one firing of a scheduled interval timer: () => showIdx(idx + 1)
TimerTick ==
    /\ loaded
    /\ \E h \in active :
          /\ showIdx(idx + 1)
          /\ cev' = [op |-> "tick", arg |-> idx + 1, pidx |-> idx]
    /\ UNCHANGED <<hasTrack, hasPrev, hasNext, nItems, tsInterval, active,
                   nextHandle, over, entered, calls>>
    /\ UNCHANGED <<loaded, themeVars, menuVars, revealVars, formVars>>

\* mouseenter on el: clearInterval(tsInterval)
MouseEnter(el) ==
    /\ loaded /\ hasTrack
    /\ el \in Present /\ el \notin over
    /\ over' = over \cup {el}
    /\ entered' = TRUE
    /\ active' = ClearIntervalActive(active, tsInterval)
    /\ cev' = [op |-> "enter", arg |-> idx, pidx |-> idx]
    /\ UNCHANGED <<hasTrack, hasPrev, hasNext, nItems, idx, trackStyle,
                   tsInterval, nextHandle, calls>>
    /\ UNCHANGED <<loaded, themeVars, menuVars, revealVars, formVars>>

\* mouseleave on el: tsInterval = setInterval(...)
MouseLeave(el) ==
    /\ loaded /\ hasTrack
    /\ el \in over
    /\ nextHandle <= MaxHandles
    /\ over' = over \ {el}
    /\ entered' = (entered /\ over' # {})
    /\ tsInterval' = nextHandle
    /\ active' = SetIntervalActive(active, nextHandle)
    /\ nextHandle' = nextHandle + 1
    /\ cev' = [op |-> "leave", arg |-> idx, pidx |-> idx]
    /\ UNCHANGED <<hasTrack, hasPrev, hasNext, nItems, idx, trackStyle, calls>>
    /\ UNCHANGED <<loaded, themeVars, menuVars, revealVars, formVars>>

\* a call showIdx(i) with an arbitrary integer argument
ShowIdxCall(i) ==
    /\ loaded /\ hasTrack
    /\ showIdx(i)
    /\ cev' = [op |-> "call", arg |-> i, pidx |-> idx]
    /\ LET c == [arg |-> i, idx |-> idx', style |-> trackStyle'] IN
       calls' = IF Len(calls) < 2 THEN Append(calls, c) ELSE <<calls[2], c>>
    /\ UNCHANGED <<hasTrack, hasPrev, hasNext, nItems, tsInterval, active,
                   nextHandle, over, entered>>
    /\ UNCHANGED <<loaded, themeVars, menuVars, revealVars, formVars>>

-----------------------------------------------------------------------------
(* Theme *)

ThemeClasses == {"theme-dark", "theme-light"}

\* what the storage entry can hold when the page loads
StoredValues == {"", "light", "dark", "blue"}

\* the mutant of ApplyClasses: the other class is never removed
ApplyClasses_NoRemove(mode, cls) ==
    IF mode = "dark" THEN cls \cup {"theme-dark"} ELSE cls \cup {"theme-light"}

\* applyTheme, the classList part
ApplyClasses(mode, cls) ==
    IF mode = "dark"
    THEN (cls \cup {"theme-dark"}) \ {"theme-light"}
    ELSE (cls \cup {"theme-light"}) \ {"theme-dark"}

\* the mutant of SetItem: a failed write wipes the entry
SetItem_Clears(store, mode, ok) == IF ok THEN Some(mode) ELSE None

\* the mutant of SetItem: the write is skipped
SetItem_Skipped(store, mode, ok) == store

\* try { localStorage.setItem(themeKey, mode) } catch (e) {}
SetItem(store, mode, ok) == IF ok THEN Some(mode) ELSE store

\* the icon applyTheme puts into darkToggle
IconFor(mode) == IF mode = "dark" THEN "sun" ELSE "moon"

\* const applyTheme = (mode) => ...
applyTheme(mode, writeOk) ==
    /\ bodyCls' = ApplyClasses(mode, bodyCls)
    /\ storage' = SetItem(storage, mode, writeOk)
    /\ icon' = IF hasToggle THEN IconFor(mode) ELSE icon

\* try { return localStorage.getItem(themeKey) } catch (e) { return null }
GetItem(store, ok) == IF ok THEN store ELSE None

\* prefersDark ? 'dark' : 'light'
Fallback(m) == IF m = "dark" THEN "dark" ELSE "light"

\* the mutant of InitMode: the stored value is ignored
InitMode_IgnoreStored(stored, m) == Fallback(m)

\* the mode the init-theme code applies
InitMode(stored, m) == IF Truthy(stored) THEN stored[1] ELSE Fallback(m)

\* the theme's part of the DOMContentLoaded callback
InitTheme(readOk, writeOk) ==
    LET stored == GetItem(storage, readOk) IN
    /\ applyTheme(InitMode(stored, mm), writeOk)
    /\ tinit' = [pre |-> storage, readOk |-> readOk,
                 applied |-> InitMode(stored, mm),
                 consulted |-> ~Truthy(stored)]
    /\ tlast' = [op |-> "load", wrote |-> writeOk,
                 mode |-> InitMode(stored, mm), pre |-> storage]
    /\ UNCHANGED <<hasToggle, mm, hist>>

\* the mutant of ToggleMode: the click always asks for dark
ToggleMode_AlwaysDark(cls) == "dark"

\* isDark ? 'light' : 'dark'
ToggleMode(cls) == IF "theme-dark" \in cls THEN "light" ELSE "dark"

Display == [cls |-> bodyCls, icon |-> icon]

\* darkToggle click
ToggleClick(writeOk) ==
    /\ loaded /\ hasToggle
    /\ applyTheme(ToggleMode(bodyCls), writeOk)
    /\ tlast' = [op |-> "toggle", wrote |-> writeOk,
                 mode |-> ToggleMode(bodyCls), pre |-> storage]
    /\ hist' = IF Len(hist) < 2 THEN Append(hist, Display)
               ELSE <<hist[2], Display>>
    /\ UNCHANGED <<hasToggle, mm, tinit>>
    /\ UNCHANGED <<loaded, carVars, menuVars, revealVars, formVars>>

-----------------------------------------------------------------------------
(* Mobile nav *)

\* the mutant of openMobile: aria-expanded is not set
openMobile_NoExpanded(f) ==
    IF ~hasMobileNav \/ ~hasHamburger THEN f
    ELSE [open |-> TRUE, hidden |-> "false", expanded |-> f.expanded]

\* function openMobile()
openMobile(f) ==
    IF ~hasMobileNav \/ ~hasHamburger THEN f
    ELSE [open |-> TRUE, hidden |-> "false", expanded |-> "true"]

\* the mutant of closeMobile: the open class is left on the panel
closeMobile_KeepsClass(f) ==
    IF ~hasMobileNav \/ ~hasHamburger THEN f
    ELSE [open |-> f.open, hidden |-> "true", expanded |-> "false"]

\* function closeMobile()
closeMobile(f) ==
    IF ~hasMobileNav \/ ~hasHamburger THEN f
    ELSE [open |-> FALSE, hidden |-> "true", expanded |-> "false"]

\* what the href of a clicked link is: no '#' prefix (or no href), '#id' of an
\* element that exists, '#id' of none, or a '#' that is no valid selector
HrefKinds == {"other", "target", "notarget", "invalid"}

\* the click listener of allScrollLinks
scrollClick(f, href) ==
    IF href = "target" /\ hasMobileNav /\ f.open THEN closeMobile(f) ELSE f

\* the state left by a mobile-nav callback
MenuStep(op, f, ran) ==
    /\ menu' = f
    /\ menuActed' = (menuActed \/ (ran /\ hasMobileNav /\ hasHamburger))
    /\ mev' = [op |-> op, was |-> menu]
    /\ UNCHANGED <<hasHamburger, hasMobileNav, hasMobileClose>>
    /\ UNCHANGED <<loaded, carVars, themeVars, revealVars, formVars>>

\* hamburger click: openMobile
HamburgerClick ==
    /\ loaded /\ hasHamburger
    /\ MenuStep("hamburger", openMobile(menu), TRUE)

\* mobileClose click: closeMobile
MobileCloseClick ==
    /\ loaded /\ hasMobileClose
    /\ MenuStep("close", closeMobile(menu), TRUE)

\* a .mobile-link click: closeMobile, then the scroll listener
MobileLinkClick(href) ==
    /\ loaded
    /\ MenuStep("link", scrollClick(closeMobile(menu), href), TRUE)

\* a click on a .nav-link or another a[href^="#"]: the scroll listener
AnchorClick(href) ==
    /\ loaded
    /\ MenuStep(IF href = "target" THEN "anchor" ELSE "anchor-" \o href,
                scrollClick(menu, href), FALSE)

\* keydown on the document
KeyDown(key) ==
    /\ loaded
    /\ MenuStep(key,
                IF key = "Escape" /\ hasMobileNav /\ menu.open
                THEN closeMobile(menu) ELSE menu,
                FALSE)

-----------------------------------------------------------------------------
(* Reveal on scroll *)

Marked == 1..nReveal

\* the mutant of revealEntry: isIntersecting is not tested
revealEntry_Always(ent, st) ==
    [visible |-> st.visible \cup {ent.target},
     observed |-> st.observed \ {ent.target}]

\* the body of the for loop over the entries
revealEntry(ent, st) ==
    IF ent.isIntersecting
    THEN [visible |-> st.visible \cup {ent.target},
          observed |-> st.observed \ {ent.target}]
    ELSE st

\* the observer callback: for (const ent of entries) ...
RECURSIVE observerCallback(_, _)
observerCallback(entries, st) ==
    IF entries = <<>> THEN st
    ELSE observerCallback(Tail(entries), revealEntry(Head(entries), st))

\* the batches of entries the host can deliver
EntryBatches ==
    UNION {[1..n -> [target : Marked, isIntersecting : BOOLEAN]] : n \in 1..MaxEntries}

\* one run of the observer callback
Intersection(entries) ==
    /\ loaded
    /\ LET st == observerCallback(entries, [visible |-> visible, observed |-> observed]) IN
       /\ visible' = st.visible
       /\ observed' = st.observed
    /\ LET now == {entries[k].target : k \in {j \in DOMAIN entries : entries[j].isIntersecting}} IN
       /\ hit' = hit \cup now
       /\ rehit' = rehit \cup (hit \cap now)
    /\ nRevealed' = [e \in Marked |->
                       IF e \notin visible /\ e \in visible' THEN nRevealed[e] + 1
                       ELSE nRevealed[e]]
    /\ UNCHANGED <<nReveal, visible0>>
    /\ UNCHANGED <<loaded, carVars, themeVars, menuVars, formVars>>

\* qsa('[data-animate]').forEach(el => observer.observe(el))
InitReveal ==
    /\ observed' = Marked
    /\ UNCHANGED <<nReveal, visible, visible0, hit, rehit, nRevealed>>

-----------------------------------------------------------------------------
(* Contact form *)

\* A string is a sequence of one-character strings.
IsSpace(c) == c = " "

\* String.prototype.trim
RECURSIVE TrimLeft(_)
TrimLeft(str) ==
    IF str # <<>> /\ IsSpace(Head(str)) THEN TrimLeft(Tail(str)) ELSE str

RECURSIVE TrimRight(_)
TrimRight(str) ==
    IF str # <<>> /\ IsSpace(str[Len(str)])
    THEN TrimRight(SubSeq(str, 1, Len(str) - 1)) ELSE str

Trim(str) == TrimRight(TrimLeft(str))

\* String.prototype.toLowerCase on the letters used here
ToLower(str) == [k \in DOMAIN str |-> IF str[k] = "A" THEN "a" ELSE str[k]]

\* [^\s@]+ : a non-empty run without whitespace or @
IsRun(str) == str # <<>> /\ \A k \in DOMAIN str : ~IsSpace(str[k]) /\ str[k] # "@"

\* the mutant of validateEmail: the dot and the part after it are not required
validateEmail_NoDot(email) ==
    LET str == ToLower(email) IN
    \E i \in DOMAIN str :
        /\ str[i] = "@"
        /\ IsRun(SubSeq(str, 1, i - 1))
        /\ IsRun(SubSeq(str, i + 1, Len(str)))

\* function validateEmail: /^[^\s@]+@[^\s@]+\.[^\s@]+$/ on the lower-cased string
validateEmail(email) ==
    LET str == ToLower(email) IN
    \E i \in DOMAIN str, j \in DOMAIN str :
        /\ i < j
        /\ str[i] = "@" /\ str[j] = "."
        /\ IsRun(SubSeq(str, 1, i - 1))
        /\ IsRun(SubSeq(str, i + 1, j - 1))
        /\ IsRun(SubSeq(str, j + 1, Len(str)))

\* data.message.length < 10
MinMessageLen == 10

\* the mutant of Validate: the message is checked before the email
Validate_MessageFirst(data) ==
    IF data.name = <<>> THEN "name-error"
    ELSE IF Len(data.message) < MinMessageLen THEN "length-error"
    ELSE IF ~validateEmail(data.email) THEN "email-error"
    ELSE "sending"

\* the three checks of the submit listener, in their order
Validate(data) ==
    IF data.name = <<>> THEN "name-error"
    ELSE IF ~validateEmail(data.email) THEN "email-error"
    ELSE IF data.message = <<>> \/ Len(data.message) < MinMessageLen THEN "length-error"
    ELSE "sending"

\* n copies of c
Rep(c, n) == [k \in 1..n |-> c]

\* What the user can have typed, each with what it is: the name is empty
\* after trimming or not, the email has the shape local@domain.tld or not,
\* and the length of the trimmed message.
NameSamples ==
    {[raw |-> <<>>, empty |-> TRUE],
     [raw |-> <<" ", " ">>, empty |-> TRUE],
     [raw |-> <<" ", "A", "l", " ">>, empty |-> FALSE]}

EmailSamples ==
    {[raw |-> <<>>, ok |-> FALSE],
     [raw |-> <<"a", ".", "b">>, ok |-> FALSE],
     [raw |-> <<"a", "@", "b">>, ok |-> FALSE],
     [raw |-> <<"a", "@", "b", ".">>, ok |-> FALSE],
     [raw |-> <<"a", "@", ".", "c">>, ok |-> FALSE],
     [raw |-> <<"a", " ", "b", "@", "c", ".", "d">>, ok |-> FALSE],
     [raw |-> <<"a", "@", "@", "b", ".", "c">>, ok |-> FALSE],
     [raw |-> <<"a", "@", "b", ".", "c">>, ok |-> TRUE],
     [raw |-> <<" ", "A", "@", "b", ".", "c", " ">>, ok |-> TRUE]}

MessageSamples ==
    {[raw |-> <<>>, len |-> 0],
     [raw |-> Rep("a", MinMessageLen - 1), len |-> MinMessageLen - 1],
     [raw |-> <<" ">> \o Rep("a", MinMessageLen - 1) \o <<" ", " ">>,
      len |-> MinMessageLen - 1],
     [raw |-> Rep("a", MinMessageLen), len |-> MinMessageLen],
     [raw |-> <<" ">> \o Rep("a", MinMessageLen) \o <<" ">>, len |-> MinMessageLen]}

EmptyFields == [name |-> <<>>, email |-> <<>>, message |-> <<>>]

\* the submit listener, run on what the user typed into the three controls
Submit(n, e, m) ==
    LET typed == [name |-> n.raw, email |-> e.raw, message |-> m.raw]
        data == [name |-> Trim(n.raw), email |-> Trim(e.raw), message |-> Trim(m.raw)]
        out == Validate(data)
    IN
    /\ loaded /\ hasForm
    /\ out = "sending" /\ hasResponse => pending < MaxPending
    /\ fields' = typed
    /\ IF ~hasResponse
       THEN UNCHANGED <<respText, respColor, pending>>
       ELSE /\ respText' = out
            /\ respColor' = IF out = "sending" THEN "accent" ELSE "error"
            /\ pending' = IF out = "sending" THEN pending + 1 ELSE pending
    /\ everSent' = (everSent \/ (hasResponse /\ ~n.empty /\ e.ok /\ m.len >= MinMessageLen))
    /\ sub' = [seen |-> TRUE, nameEmpty |-> n.empty, emailOk |-> e.ok,
               msgLen |-> m.len, typed |-> typed]
    /\ fev' = "submit"
    /\ UNCHANGED <<hasForm, hasResponse>>
    /\ UNCHANGED <<loaded, carVars, themeVars, menuVars, revealVars>>

\* one setTimeout callback of an earlier submit: the confirmation and form.reset()
FormTimeout ==
    /\ loaded
    /\ pending > 0
    /\ pending' = pending - 1
    /\ respText' = "thanks"
    /\ fields' = EmptyFields
    /\ fev' = "timeout"
    /\ UNCHANGED <<hasForm, hasResponse, respColor, everSent, sub>>
    /\ UNCHANGED <<loaded, carVars, themeVars, menuVars, revealVars>>

-----------------------------------------------------------------------------
(* Page load *)

\* document.addEventListener('DOMContentLoaded', ...)
DOMContentLoaded ==
    /\ ~loaded
    /\ loaded' = TRUE
    \* getItem itself never throws: a throwing read is the localStorage
    \* accessor throwing, and then the write in the same callback throws too
    /\ \E readOk \in BOOLEAN, writeOk \in BOOLEAN :
          /\ ~readOk => ~writeOk
          /\ InitTheme(readOk, writeOk)
    /\ InitSlider
    \* the mobile nav setup only registers listeners
    /\ UNCHANGED menuVars
    /\ InitReveal
    \* the contact form setup only registers the submit listener
    /\ UNCHANGED formVars

-----------------------------------------------------------------------------
(* Initial states: the page as parsed, before the script's callback runs *)

InitScript ==
    /\ loaded = FALSE
    /\ idx = 0
    /\ trackStyle = Unwritten
    /\ tsInterval = 0
    /\ active = {}
    /\ nextHandle = 1
    /\ entered = FALSE
    /\ cev = [op |-> "none", arg |-> 0, pidx |-> 0]
    /\ calls = <<>>
    /\ icon = "markup"
    /\ tinit = [pre |-> None, readOk |-> FALSE, applied |-> "", consulted |-> FALSE]
    /\ tlast = [op |-> "none", wrote |-> FALSE, mode |-> "", pre |-> None]
    /\ hist = <<>>
    /\ menuActed = FALSE
    /\ observed = {}
    /\ hit = {}
    /\ rehit = {}
    /\ fields = EmptyFields
    /\ respText = "markup"
    /\ respColor = "markup"
    /\ pending = 0
    /\ everSent = FALSE
    /\ sub = [seen |-> FALSE, nameEmpty |-> TRUE, emailOk |-> FALSE,
              msgLen |-> 0, typed |-> EmptyFields]
    /\ fev = "none"

\* a page with a slider; the pointer may already rest on it
SliderPage ==
    /\ hasTrack = TRUE
    /\ hasPrev \in BOOLEAN
    /\ hasNext \in BOOLEAN
    /\ nItems \in 0..MaxItems
    /\ over \in SUBSET Present

\* a page without the slider markup: if (track) skips the feature
NoSliderPage ==
    /\ hasTrack = FALSE
    /\ hasPrev = FALSE
    /\ hasNext = FALSE
    /\ nItems = 0
    /\ over = {}

\* any theme environment
ThemePage ==
    /\ storage \in {None} \cup {Some(s) : s \in StoredValues}
    /\ bodyCls \in SUBSET ThemeClasses
    /\ hasToggle \in BOOLEAN
    /\ mm \in {"absent", "dark", "light"}

\* a page without the theme toggle and with nothing stored
PlainThemePage ==
    /\ storage = None
    /\ bodyCls = {}
    /\ hasToggle = FALSE
    /\ mm = "absent"

\* any mobile-nav markup: the panel may carry class open, the aria attributes
\* may be absent or hold either value
MenuPage ==
    /\ hasHamburger \in BOOLEAN
    /\ hasMobileNav \in BOOLEAN
    /\ hasMobileClose \in BOOLEAN
    /\ menu \in [open : IF hasMobileNav THEN BOOLEAN ELSE {FALSE},
                 hidden : IF hasMobileNav THEN {"none", "true", "false"} ELSE {"none"},
                 expanded : IF hasHamburger THEN {"none", "true", "false"} ELSE {"none"}]
    /\ mev = [op |-> "none", was |-> menu]

\* a page without the mobile-nav markup
NoMenuPage ==
    /\ hasHamburger = FALSE
    /\ hasMobileNav = FALSE
    /\ hasMobileClose = FALSE
    /\ menu = [open |-> FALSE, hidden |-> "none", expanded |-> "none"]
    /\ mev = [op |-> "none", was |-> menu]

\* a page with [data-animate] elements, some of which may be visible already
RevealPage ==
    /\ nReveal \in 0..MaxReveal
    /\ visible \in SUBSET Marked
    /\ visible0 = visible
    /\ nRevealed = [e \in Marked |-> 0]

\* a page without [data-animate] elements
NoRevealPage ==
    /\ nReveal = 0
    /\ visible = {}
    /\ visible0 = {}
    /\ nRevealed = [e \in Marked |-> 0]

\* a page with the contact form, with or without the response area
FormPage ==
    /\ hasForm = TRUE
    /\ hasResponse \in BOOLEAN

\* a page without the contact form: if (contactForm) skips the feature
NoFormPage ==
    /\ hasForm = FALSE
    /\ hasResponse = FALSE

InitCarousel ==
    InitScript /\ SliderPage /\ PlainThemePage /\ NoMenuPage /\ NoRevealPage /\ NoFormPage

NextCarousel ==
    \/ DOMContentLoaded
    \/ PrevClick
    \/ NextClick
    \/ TimerTick
    \/ \E el \in Els : MouseEnter(el)
    \/ \E el \in Els : MouseLeave(el)

\* the slider under its event callbacks
SpecCarousel == InitCarousel /\ [][NextCarousel]_vars

\* the same, with the host firing scheduled interval timers
FairSpecCarousel == SpecCarousel /\ WF_vars(TimerTick)

InitShowIdx ==
    /\ InitScript /\ PlainThemePage /\ NoMenuPage /\ NoRevealPage /\ NoFormPage
    /\ hasTrack = TRUE /\ hasPrev = FALSE /\ hasNext = FALSE
    /\ nItems \in 0..MaxItems
    /\ over = {}

NextShowIdx ==
    \/ DOMContentLoaded
    \/ \E i \in -MaxArg..MaxArg : ShowIdxCall(i)

\* showIdx as a function of its argument
SpecShowIdx == InitShowIdx /\ [][NextShowIdx]_vars

InitThemeSpec ==
    InitScript /\ NoSliderPage /\ ThemePage /\ NoMenuPage /\ NoRevealPage /\ NoFormPage

NextTheme ==
    \/ DOMContentLoaded
    \/ \E writeOk \in BOOLEAN : ToggleClick(writeOk)

\* the theme under page load and toggle clicks
SpecTheme == InitThemeSpec /\ [][NextTheme]_vars

InitMenu ==
    InitScript /\ NoSliderPage /\ PlainThemePage /\ MenuPage /\ NoRevealPage /\ NoFormPage

NextMenu ==
    \/ DOMContentLoaded
    \/ HamburgerClick
    \/ MobileCloseClick
    \/ \E href \in HrefKinds : MobileLinkClick(href)
    \/ \E href \in HrefKinds : AnchorClick(href)
    \/ \E key \in {"Escape", "Enter"} : KeyDown(key)

\* the mobile nav under its event callbacks
SpecMenu == InitMenu /\ [][NextMenu]_vars

InitRevealSpec ==
    InitScript /\ NoSliderPage /\ PlainThemePage /\ NoMenuPage /\ RevealPage /\ NoFormPage

NextReveal ==
    \/ DOMContentLoaded
    \/ \E entries \in EntryBatches : Intersection(entries)

\* reveal on scroll under observer callbacks
SpecReveal == InitRevealSpec /\ [][NextReveal]_vars

InitForm ==
    InitScript /\ NoSliderPage /\ PlainThemePage /\ NoMenuPage /\ NoRevealPage /\ FormPage

NextForm ==
    \/ DOMContentLoaded
    \/ \E n \in NameSamples, e \in EmailSamples, m \in MessageSamples : Submit(n, e, m)
    \/ FormTimeout

\* the contact form under submits and the delayed callbacks
SpecForm == InitForm /\ [][NextForm]_vars

\* the same, with the host running every scheduled timeout
FairSpecForm == SpecForm /\ WF_vars(FormTimeout)

-----------------------------------------------------------------------------
(* Claims about the testimonials slider *)

\* C1: after any sequence of mouseenter and mouseleave callbacks at most one
\* autoplay interval timer is scheduled at a time.
C1_AtMostOneTimer == Cardinality(active) <= 1

\* C2: with N >= 1 items the current index is always in 0..N-1 under prev
\* clicks, next clicks and timer ticks; prev from 0 goes to N-1 and next from
\* N-1 goes to 0.
C2_IndexInBounds ==
    nItems >= 1 =>
        /\ idx \in 0..(nItems - 1)
        /\ (cev.op = "prev" /\ cev.pidx = 0 => idx = nItems - 1)
        /\ (cev.op \in {"next", "tick"} /\ cev.pidx = nItems - 1 => idx = 0)

\* a prev click has wrapped from index 0 to the last item
C2_Witness ==
    /\ nItems >= 2
    /\ cev.op = "prev" /\ cev.pidx = 0
    /\ idx = nItems - 1

\* C3: for every integer i, showIdx(i) on an N-item slider (N >= 1) sets the
\* current index to ((i % N) + N) % N.
C3_ShowIdxNormalizes ==
    cev.op = "call" /\ nItems >= 1 =>
        idx = JsMod(JsMod(cev.arg, nItems) + nItems, nItems)

\* C4: once the pointer has entered one of the track, prev or next elements and
\* until it has left all of them, no autoplay timer is scheduled.
C4_NoTimerWhileHovering == entered /\ over # {} => active = {}

\* C5: whenever the pointer is on none of the slider elements the remembered
\* autoplay timer is scheduled; each tick advances the index by one modulo the
\* item count; and if the pointer stays away forever the ticks never stop.
C5_AutoplayRuns ==
    /\ [](loaded /\ over = {} => tsInterval \in active)
    /\ [](cev.op = "tick" /\ nItems >= 1 => idx = (cev.pidx + 1) % nItems)
    /\ <>[](loaded /\ over = {}) => []<>(cev.op = "tick")

\* after a mouseleave restarted autoplay, a tick has wrapped the index to 0
C5_Witness ==
    /\ nItems >= 2
    /\ over = {} /\ nextHandle > 2 /\ tsInterval \in active
    /\ cev.op = "tick" /\ cev.pidx = nItems - 1 /\ idx = 0

-----------------------------------------------------------------------------
(* Claims about the theme *)

DarkDisplay == [cls |-> {"theme-dark"}, icon |-> "sun"]
LightDisplay == [cls |-> {"theme-light"}, icon |-> "moon"]

\* C6: after initialization, whatever was stored at startup and after any
\* toggle clicks, the body carries exactly one of theme-dark and theme-light.
C6_ExactlyOneThemeClass ==
    loaded => Cardinality(bodyCls \cap ThemeClasses) = 1

\* a toggle click on a page that started with a foreign stored value
C6_Witness ==
    /\ tinit.pre = Some("blue") /\ tinit.readOk
    /\ tlast.op = "toggle"
    /\ bodyCls = {"theme-light"}

\* C7: after a toggle click whose storage write succeeded, the stored value
\* equals the displayed theme: "dark" iff the body has theme-dark.
C7_StoredMatchesDisplayed ==
    tlast.op = "toggle" /\ tlast.wrote =>
        storage = Some(IF "theme-dark" \in bodyCls THEN "dark" ELSE "light")

\* a toggle click has stored "dark" over a foreign value
C7_Witness ==
    /\ tinit.pre = Some("blue")
    /\ tlast.op = "toggle" /\ tlast.wrote
    /\ storage = Some("dark") /\ "theme-dark" \in bodyCls

\* C8: after initialization the value the script has written under the theme
\* key is "light" or "dark", whatever string was stored before the page loaded.
C8_StoredIsLightOrDark ==
    loaded /\ tlast.wrote => storage \in {Some("light"), Some("dark")}

\* C9: one toggle click changes the displayed theme (body class and icon) to
\* the other value, and two consecutive clicks restore it.
C9_ToggleInvolution ==
    /\ Len(hist) >= 1 => {hist[Len(hist)], Display} = {DarkDisplay, LightDisplay}
    /\ Len(hist) = 2 => Display = hist[1]

\* two clicks in a row on a page that started with a foreign stored value
C9_Witness ==
    /\ Len(hist) = 2
    /\ tinit.pre = Some("blue")
    /\ Display = LightDisplay

-----------------------------------------------------------------------------
(* More claims about the testimonials slider *)

\* C17: with zero testimonials every slider callback (the initial showIdx(0),
\* prev click, next click, timer tick, mouseenter, mouseleave) leaves the
\* index at 0 and never writes the track's style or transform.
C17_EmptySliderUntouched ==
    nItems = 0 => idx = 0 /\ trackStyle = Unwritten

\* on an empty slider with both buttons, a timer started by a mouseleave has ticked
C17_Witness ==
    /\ nItems = 0 /\ hasPrev /\ hasNext
    /\ cev.op = "tick" /\ nextHandle > 2
    /\ idx = 0 /\ trackStyle = Unwritten

\* C18: on an N-item slider (N >= 1), for i and j congruent modulo N and both
\* at least -N, showIdx(i) followed by showIdx(j) leaves the index and the
\* track offset that showIdx(i) alone left.
C18_ShowIdxIdempotent ==
    /\ Len(calls) = 2
    /\ nItems >= 1
    /\ calls[1].arg >= -nItems /\ calls[2].arg >= -nItems
    /\ (calls[1].arg - calls[2].arg) % nItems = 0
    => /\ calls[2].idx = calls[1].idx
       /\ calls[2].style = calls[1].style
       /\ idx = calls[1].idx /\ trackStyle = calls[1].style

\* showIdx(-2) then showIdx(7) on three items: both select index 1
C18_Witness ==
    /\ Len(calls) = 2 /\ nItems = 3
    /\ calls[1].arg = -2 /\ calls[2].arg = 7
    /\ idx = 1 /\ trackStyle = [written |-> TRUE, offset |-> -100]

-----------------------------------------------------------------------------
(* Claims about the mobile nav *)

ClosedMenu == [open |-> FALSE, hidden |-> "true", expanded |-> "false"]

\* C16 as stated: whenever the panel is open, a click on the close control, a
\* click on a mobile link, an Escape key press and a click on an in-page
\* anchor whose target exists each leave it closed; only a click on the menu
\* toggle opens it.
C16_ClosingEvents_AnyPage ==
    /\ mev.op \in {"close", "link", "Escape", "anchor"} /\ mev.was.open
          => ~menu.open
    /\ menu.open /\ ~mev.was.open => mev.op = "hamburger"

\* C16, amended: whenever the panel is open and the menu toggle element
\* exists, each of those four events leaves it closed; only a click on the
\* menu toggle opens it.
C16_ClosingEvents ==
    /\ mev.op \in {"close", "link", "Escape", "anchor"} /\ mev.was.open
       /\ hasHamburger
          => ~menu.open
    /\ menu.open /\ ~mev.was.open => mev.op = "hamburger"

\* a click on an anchor with an existing target closed the open panel
C16_Witness ==
    /\ mev.op = "anchor" /\ mev.was.open
    /\ menu = ClosedMenu

\* C19: once an open or close has taken effect the three flags agree: the
\* panel has class open iff its aria-hidden is "false" iff the toggle's
\* aria-expanded is "true"; with the panel or the toggle element missing no
\* callback changes any of the three.
C19_FlagsAgree ==
    /\ menuActed =>
          /\ menu.hidden \in {"true", "false"}
          /\ menu.expanded \in {"true", "false"}
          /\ menu.open <=> menu.hidden = "false"
          /\ menu.open <=> menu.expanded = "true"
    /\ ~(hasMobileNav /\ hasHamburger) => ~menuActed /\ menu = mev.was

\* opened by the toggle over markup without aria attributes, then closed by Escape
C19_Witness ==
    /\ menuActed
    /\ mev.op = "Escape" /\ mev.was = [open |-> TRUE, hidden |-> "false", expanded |-> "true"]
    /\ menu = ClosedMenu

-----------------------------------------------------------------------------
(* Claims about reveal on scroll *)

\* C15: a marked element becomes revealed at most once, only by an entry that
\* reports it intersecting, and is unobserved in that same callback; once
\* revealed it stays revealed whatever entries follow, and an element no
\* entry reported intersecting stays as the markup had it.
C15_RevealOneWay ==
    /\ visible = visible0 \cup hit
    /\ observed \cap hit = {}
    /\ \A e \in Marked : nRevealed[e] <= 1
    /\ \A e \in Marked : nRevealed[e] = 1 <=> e \in hit \ visible0

\* element 1 was revealed once and a later callback reported it intersecting
\* again, while element 2 was never reported intersecting and is still hidden
\* and observed
C15_Witness ==
    /\ nReveal = 2 /\ visible0 = {}
    /\ 1 \in rehit
    /\ nRevealed[1] = 1 /\ visible = {1} /\ observed = {2}

-----------------------------------------------------------------------------
(* Claims about the contact form *)

\* the last submit had valid fields
SubPasses == ~sub.nameEmpty /\ sub.emailOk /\ sub.msgLen >= 10

\* the error the claims expect for the last submit
SubError ==
    IF sub.nameEmpty THEN "name-error"
    ELSE IF ~sub.emailOk THEN "email-error"
    ELSE "length-error"

\* C12: each submit reports exactly one outcome over the trimmed fields, in
\* fixed order: the name error if the name is empty, else the email error if
\* the email is not of the shape local@domain.tld, else the length error if
\* the message has fewer than 10 characters, else success.
C12_ValidationOrder ==
    fev = "submit" /\ hasResponse =>
        respText = (IF SubPasses THEN "sending" ELSE SubError)

\* a padded 9-character message after a good name and email: the length error
C12_Witness ==
    /\ fev = "submit" /\ hasResponse
    /\ ~sub.nameEmpty /\ sub.emailOk /\ sub.msgLen = 9
    /\ Len(sub.typed.message) > 10
    /\ respText = "length-error" /\ respColor = "error"

\* C13: after a submit that fails validation the response area shows that
\* rule's error and the form fields are not reset, until the next submit,
\* however the delayed callbacks of earlier submits interleave.
C13_FailedSubmitKept ==
    sub.seen /\ hasResponse /\ ~SubPasses =>
        respText = SubError /\ fields = sub.typed

\* C14: a submit that passes validation shows the sending message and is
\* eventually followed by the confirmation message together with the form
\* reset; the confirmation and reset never come without an earlier submit
\* that passed.
C14_SuccessCompletes ==
    /\ [](fev = "submit" /\ hasResponse /\ SubPasses
            => respText = "sending" /\ pending >= 1)
    /\ [](fev = "timeout" => everSent /\ respText = "thanks" /\ fields = EmptyFields)
    /\ [](respText = "thanks" => everSent)
    /\ (fev = "submit" /\ hasResponse /\ SubPasses) ~> (fev = "timeout")

\* the delayed callback of a passed submit has shown the confirmation and
\* reset the form
C14_Witness ==
    /\ fev = "timeout" /\ everSent /\ SubPasses
    /\ respText = "thanks" /\ fields = EmptyFields /\ pending = 0
    /\ sub.typed.message # <<>>

=============================================================================
